---- MODULE Spec2Model ----
(***************************************************************************)
(* Smart Video Summarizer: the upload / extract / transcribe / persist     *)
(* pipeline of app.py and google_processor.py, the file helpers of         *)
(* utils.py and the settings of config.py.                                 *)
(*                                                                         *)
(* A filename or a text is a sequence of one-character strings, so that    *)
(* suffix, stem, lower-casing and whitespace splitting are computed the    *)
(* way pathlib and str compute them.                                       *)
(***************************************************************************)
EXTENDS Naturals, Sequences, FiniteSets

VARIABLES
    api_key,          \* os.getenv("GOOGLE_API_KEY") is set (app.py:39)
    uploaded_file,    \* value of the st.file_uploader widget (app.py:55)
    transcripts,      \* st.session_state.transcripts (app.py:28)
    summaries,        \* st.session_state['summary_<idx>'] (app.py:211)
    temp_dir,         \* names of the files present in TEMP_DIR
    output_dir,       \* files of OUTPUT_DIR: set of [name, data]
    clock,            \* datetime.now(), in seconds
    pc,               \* position of the running script; "idle" between reruns
    file_path,        \* app.py:124, the staged path (<<>> when not set)
    audio_path,       \* process_video's local (google_processor.py:99)
    audio_arg,        \* the path transcribe_audio was called with
    transcript_data,  \* app.py:135, what process_media_file returned
    sum_idx,          \* idx of the summarize button being served
    calls,            \* external calls started by the current request
    outcome,          \* how the last request ended
    pre,              \* session state at the start of the current request
    unlink_failed,    \* paths whose os.remove raised in the current request
    requests,         \* Process File presses served so far that reached staging
    fn_in,            \* argument of a function applied on its own
    fn_out            \* its result

vars == <<api_key, uploaded_file, transcripts, summaries, temp_dir, output_dir,
          clock, pc, file_path, audio_path, audio_arg, transcript_data, sum_idx,
          calls, outcome,
          pre, unlink_failed, requests, fn_in, fn_out>>

----------------------------------------------------------------------------
(* Bounds of the model.                                                    *)

MaxRequests == 1
MaxNameLen == 5
MaxTextLen == 3

----------------------------------------------------------------------------
(* config.py                                                               *)

MAX_FILE_SIZE_MB == 500

SUPPORTED_VIDEO_FORMATS ==
    { <<".", "m", "p", "4">>, <<".", "a", "v", "i">>, <<".", "m", "o", "v">>,
      <<".", "m", "k", "v">>, <<".", "w", "m", "v">>, <<".", "f", "l", "v">> }

SUPPORTED_AUDIO_FORMATS ==
    { <<".", "m", "p", "3">>, <<".", "w", "a", "v">>, <<".", "m", "4", "a">>,
      <<".", "a", "a", "c">>, <<".", "o", "g", "g">>,
      <<".", "f", "l", "a", "c">> }

GEMINI_MODEL == "gemini-flash-latest"

----------------------------------------------------------------------------
(* str and pathlib                                                         *)

UpperChars == <<"A", "C", "F", "G", "I", "K", "L", "M", "O", "P", "V", "W">>
LowerChars == <<"a", "c", "f", "g", "i", "k", "l", "m", "o", "p", "v", "w">>

\* str.lower() on one character
LowerChar(c) ==
    IF \E i \in DOMAIN UpperChars : UpperChars[i] = c
    THEN LowerChars[CHOOSE i \in DOMAIN UpperChars : UpperChars[i] = c]
    ELSE c

\* str.upper() on one character
UpperChar(c) ==
    IF \E i \in DOMAIN LowerChars : LowerChars[i] = c
    THEN UpperChars[CHOOSE i \in DOMAIN LowerChars : LowerChars[i] = c]
    ELSE c

\* str.lower()
Lower(s) == [i \in 1..Len(s) |-> LowerChar(s[i])]

\* str.upper()
Upper(s) == [i \in 1..Len(s) |-> UpperChar(s[i])]

\* str.rfind('.'), 1-based; 0 when there is no dot
RFindDot(s) ==
    IF \E i \in 1..Len(s) : s[i] = "."
    THEN CHOOSE i \in 1..Len(s) :
            s[i] = "." /\ \A j \in (i+1)..Len(s) : s[j] # "."
    ELSE 0

\* PurePath.suffix of a name without separators: the text from the last dot,
\* unless that dot is the first or the last character ("..mp4" has the
\* suffix ".mp4", ".mp4" and "x." have none)
PathSuffix(name) ==
    LET i == RFindDot(name)
    IN  IF 1 < i /\ i < Len(name) THEN SubSeq(name, i, Len(name)) ELSE <<>>

\* PurePath.stem
PathStem(name) ==
    LET i == RFindDot(name)
    IN  IF 1 < i /\ i < Len(name) THEN SubSeq(name, 1, i - 1) ELSE name

----------------------------------------------------------------------------
(* utils.py: the file classifier                                           *)

\* get_file_extension without .lower()
get_file_extension_as_written(filename) == PathSuffix(filename)

get_file_extension(filename) == Lower(PathSuffix(filename))

is_video_file(filename) == get_file_extension(filename) \in SUPPORTED_VIDEO_FORMATS

is_audio_file(filename) == get_file_extension(filename) \in SUPPORTED_AUDIO_FORMATS

\* MediaKind with the video branch lost: a video goes to process_audio
MediaKindNoVideoBranch(filename) ==
    IF is_video_file(filename) \/ is_audio_file(filename) THEN "audio"
    ELSE "unsupported"

\* process_media_file's dispatch (google_processor.py:232-237)
MediaKind(filename) ==
    IF is_video_file(filename) THEN "video"
    ELSE IF is_audio_file(filename) THEN "audio"
    ELSE "unsupported"

----------------------------------------------------------------------------
(* utils.py: staging, extraction, cleanup                                  *)

Digits == <<"0", "1", "2", "3", "4", "5", "6", "7", "8", "9">>

\* datetime.now().strftime("%Y%m%d_%H%M%S") at second c of the session
Strftime(c) ==
    <<"2", "0", "2", "6", "1", "1", "0", "5", "_", "1", "2", "0", "0", "0">>
        \o <<Digits[c + 1]>>

generate_unique_filename(original_filename, prefix, now) ==
    prefix \o PathStem(original_filename) \o <<"_">> \o Strftime(now)
        \o PathSuffix(original_filename)

UPLOAD_PREFIX == <<"u", "p", "l", "o", "a", "d", "_">>

\* the path save_uploaded_file writes to (utils.py:34-35)
StagedPath(name, now) == generate_unique_filename(name, UPLOAD_PREFIX, now)

\* the path extract_audio_from_video writes to (utils.py:53-54)
ExtractedAudioPath(video_path) ==
    PathStem(video_path) \o <<"_", "a", "u", "d", "i", "o", ".", "m", "p", "3">>

\* cleanup_temp_files(file): the directory after the call; os.remove either
\* succeeds (removed) or raises, which is logged and swallowed
cleanup_temp_files(dir, file, removed) ==
    IF file # <<>> /\ file \in dir /\ removed THEN dir \ {file} ELSE dir

\* the paths whose os.remove raised during cleanup_temp_files(file)
CleanupErrors(dir, file, removed) ==
    IF file # <<>> /\ file \in dir /\ ~removed THEN {file} ELSE {}

----------------------------------------------------------------------------
(* google_processor.py                                                     *)

Whitespace == {" ", "\n", "\t"}

\* str.split(): the maximal runs of non-whitespace characters
RECURSIVE SplitFrom(_, _, _)
SplitFrom(s, i, cur) ==
    IF i > Len(s) THEN (IF cur = <<>> THEN <<>> ELSE <<cur>>)
    ELSE IF s[i] \in Whitespace
         THEN (IF cur = <<>> THEN <<>> ELSE <<cur>>) \o SplitFrom(s, i + 1, <<>>)
         ELSE SplitFrom(s, i + 1, Append(cur, s[i]))

Split(s) == SplitFrom(s, 1, <<>>)

\* WordCount without .split(): the number of characters
WordCountOfCharacters(text) == Len(text)

\* "word_count": len(transcript_text.split())
WordCount(text) == Len(Split(text))

\* the result dictionary of transcribe_audio, with the two keys process_video
\* and process_audio add
TranscriptRecord(text, audio, media_type, original, now) ==
    [ text          |-> text,
      language      |-> "auto-detected",
      duration      |-> "None",
      word_count    |-> WordCount(text),
      processed_at  |-> now,
      source_file   |-> audio,
      model         |-> GEMINI_MODEL,
      media_type    |-> media_type,
      original_file |-> original ]

\* process_video: result["original_file"] = video_path.name
VideoRecord(text, audio, video_path, now) ==
    TranscriptRecord(text, audio, "video", video_path, now)

\* process_audio: result["original_file"] = audio_path.name
AudioRecord(text, audio, now) ==
    TranscriptRecord(text, audio, "audio", audio, now)

\* the prompts dictionary of summarize_text
Prompts ==
    [ brief       |-> "Provide a brief summary of the following text in 3-5 sentences.",
      detailed    |-> "Provide a detailed summary of the following text.",
      study_guide |-> "Create a study guide from the following text for college students." ]

\* PromptFor with another default than prompts["brief"]
PromptForDefaultDetailed(summary_type) ==
    IF summary_type \in DOMAIN Prompts THEN Prompts[summary_type]
    ELSE Prompts["detailed"]

\* prompts.get(summary_type, prompts["brief"])
PromptFor(summary_type) ==
    IF summary_type \in DOMAIN Prompts THEN Prompts[summary_type]
    ELSE Prompts["brief"]

\* full_prompt = f"{prompt}\n\nText to summarize:\n{text}"
FullPrompt(text, summary_type) ==
    <<PromptFor(summary_type), "\n\nText to summarize:\n">> \o text

\* the filename save_transcript generates
TranscriptFilename(data, now) ==
    <<"t", "r", "a", "n", "s", "c", "r", "i", "p", "t", "_">>
        \o PathStem(data.original_file) \o <<"_">> \o Strftime(now)
        \o <<".", "j", "s", "o", "n">>

\* open(filepath, "w") + json.dump: the file replaces any file of that name
WriteFile(dir, name, data) ==
    {f \in dir : f.name # name} \cup {[name |-> name, data |-> data]}

----------------------------------------------------------------------------
(* The inputs of the session                                               *)

NoFile == [present |-> FALSE, name |-> <<>>, size |-> 0]

MAX_FILE_SIZE_BYTES == MAX_FILE_SIZE_MB * 1024 * 1024

\* names a user uploads: a video, an audio file with an upper-case
\* extension, and a name whose extension is in neither set. The type list
\* given to st.file_uploader is a filter of the browser widget; the script
\* itself accepts whatever name arrives, and process_media_file has its own
\* branch for it
UploadNames ==
    { <<"a", ".", "m", "p", "4">>, <<"b", ".", "M", "P", "3">>,
      <<"c", ".", "t", "x", "t">> }

\* what the uploader can hold: each name with a size of exactly the limit,
\* and one file of one byte more
Uploads ==
    { [present |-> TRUE, name |-> n, size |-> MAX_FILE_SIZE_BYTES] : n \in UploadNames }
    \cup { [present |-> TRUE, name |-> <<"a", ".", "m", "p", "4">>,
            size |-> MAX_FILE_SIZE_BYTES + 1] }

\* response.text of a transcription request
ResponseTexts ==
    { <<>>, <<" ", "a", " ", "\t", "b", "\n">> }

\* response.text of a summarization request
SummaryTexts == {"S1", "S2"}

\* Stopped without the size check of app.py:115-117
StoppedOnlyWithoutKey(uf) == ~api_key

\* the script stops before the main area is rendered (app.py:40-43, 115-117)
Stopped(uf) ==
    \/ ~api_key
    \/ uf.present /\ uf.size > MAX_FILE_SIZE_BYTES

Session == [transcripts |-> transcripts, summaries |-> summaries]

Call(op, arg) == [op |-> op, arg |-> arg]

----------------------------------------------------------------------------
(* The session: one action per rerun of app.py, cut where the script       *)
(* waits for ffmpeg or for the remote model.                               *)

Init ==
    /\ api_key \in BOOLEAN
    /\ uploaded_file = NoFile
    /\ transcripts = <<>>
    /\ summaries = <<>>
    /\ temp_dir = {}
    /\ output_dir = {}
    /\ clock = 0
    /\ pc = "idle"
    /\ file_path = <<>>
    /\ audio_path = <<>>
    /\ audio_arg = <<>>
    /\ transcript_data = <<>>
    /\ sum_idx = 0
    /\ calls = <<>>
    /\ outcome = "none"
    /\ pre = [transcripts |-> <<>>, summaries |-> <<>>]
    /\ unlink_failed = {}
    /\ requests = 0
    /\ fn_in = <<>>
    /\ fn_out = <<>>

\* what every rerun resets before the script's first line
BeginRequest ==
    /\ pre' = Session
    /\ unlink_failed' = {}
    /\ UNCHANGED <<api_key, clock, fn_in, fn_out>>

\* a rerun that ends without staging a file or calling anything
EndWithoutWork(result) ==
    /\ pc' = "idle"
    /\ outcome' = result
    /\ calls' = <<>>
    /\ file_path' = <<>>
    /\ audio_path' = <<>>
    /\ audio_arg' = <<>>
    /\ transcript_data' = <<>>
    /\ UNCHANGED <<transcripts, summaries, temp_dir, output_dir, sum_idx>>

\* a second passes between two requests. Timestamps are only compared for
\* equality (in file names), so one tick per request served is enough
Tick ==
    /\ pc = "idle"
    /\ clock < requests
    /\ clock' = clock + 1
    /\ UNCHANGED <<api_key, uploaded_file, transcripts, summaries, temp_dir,
                   output_dir, pc, file_path, audio_path, audio_arg, transcript_data, sum_idx,
                   calls, outcome, pre, unlink_failed, requests, fn_in, fn_out>>

\* the user picks a file: the script reruns with no button pressed
Upload(file) ==
    /\ pc = "idle"
    /\ uploaded_file' = file
    /\ UNCHANGED requests
    /\ BeginRequest
    /\ EndWithoutWork(IF Stopped(uploaded_file') THEN "stopped" ELSE "rendered")

\* the user removes the file from the uploader
ClearUpload ==
    /\ pc = "idle"
    /\ uploaded_file.present
    /\ uploaded_file' = NoFile
    /\ UNCHANGED requests
    /\ BeginRequest
    /\ EndWithoutWork(IF Stopped(uploaded_file') THEN "stopped" ELSE "rendered")

\* Process File pressed, and st.stop() ends the script: no credential, or
\* the file is larger than MAX_FILE_SIZE_MB
ProcessStopped ==
    /\ pc = "idle"
    /\ Stopped(uploaded_file)
    /\ BeginRequest
    /\ EndWithoutWork("stopped")
    /\ UNCHANGED <<uploaded_file, requests>>

\* Process File pressed with no file in the uploader (app.py:69)
ProcessNoFile ==
    /\ pc = "idle"
    /\ ~Stopped(uploaded_file)
    /\ ~uploaded_file.present
    /\ BeginRequest
    /\ EndWithoutWork("rendered")
    /\ UNCHANGED <<uploaded_file, requests>>

\* Process File pressed and the script reaches the try block (app.py:120)
CanProcess ==
    /\ pc = "idle"
    /\ ~Stopped(uploaded_file)
    /\ uploaded_file.present
    /\ requests < MaxRequests

\* save_uploaded_file raises: open() failed (no file), or the write failed
\* (the file is there)
ProcessStageFails(created) ==
    /\ CanProcess
    /\ requests' = requests + 1
    /\ BeginRequest
    /\ temp_dir' = IF created
                   THEN temp_dir \cup {StagedPath(uploaded_file.name, clock)}
                   ELSE temp_dir
    /\ pc' = "idle"
    /\ outcome' = "error"
    /\ calls' = <<>>
    /\ file_path' = <<>>
    /\ audio_path' = <<>>
    /\ audio_arg' = <<>>
    /\ transcript_data' = <<>>
    /\ UNCHANGED <<uploaded_file, transcripts, summaries, output_dir, sum_idx>>

\* staged, and process_media_file raises ValueError
ProcessUnsupported ==
    /\ CanProcess
    /\ requests' = requests + 1
    /\ LET staged == StagedPath(uploaded_file.name, clock)
       IN  /\ MediaKind(staged) = "unsupported"
           /\ temp_dir' = temp_dir \cup {staged}
           /\ file_path' = staged
    /\ BeginRequest
    /\ pc' = "idle"
    /\ outcome' = "error"
    /\ calls' = <<>>
    /\ audio_path' = <<>>
    /\ audio_arg' = <<>>
    /\ transcript_data' = <<>>
    /\ UNCHANGED <<uploaded_file, transcripts, summaries, output_dir, sum_idx>>

\* staged, process_video starts ffmpeg
ProcessVideo ==
    /\ CanProcess
    /\ requests' = requests + 1
    /\ LET staged == StagedPath(uploaded_file.name, clock)
       IN  /\ MediaKind(staged) = "video"
           /\ temp_dir' = temp_dir \cup {staged}
           /\ file_path' = staged
           /\ calls' = <<Call("extract", staged)>>
    /\ BeginRequest
    /\ pc' = "extract"
    /\ outcome' = "running"
    /\ audio_path' = <<>>
    /\ audio_arg' = <<>>
    /\ transcript_data' = <<>>
    /\ UNCHANGED <<uploaded_file, transcripts, summaries, output_dir, sum_idx>>

\* staged, process_audio sends the staged file to the model
ProcessAudio ==
    /\ CanProcess
    /\ requests' = requests + 1
    /\ LET staged == StagedPath(uploaded_file.name, clock)
       IN  /\ MediaKind(staged) = "audio"
           /\ temp_dir' = temp_dir \cup {staged}
           /\ file_path' = staged
           /\ calls' = <<Call("transcribe", staged)>>
           /\ audio_arg' = staged
    /\ transcript_data' = <<>>
    /\ BeginRequest
    /\ pc' = "transcribe"
    /\ outcome' = "running"
    /\ audio_path' = <<>>
    /\ UNCHANGED <<uploaded_file, transcripts, summaries, output_dir, sum_idx>>

ClickProcess ==
    \/ ProcessStopped
    \/ ProcessNoFile
    \/ \E created \in BOOLEAN : ProcessStageFails(created)
    \/ ProcessUnsupported
    \/ ProcessVideo
    \/ ProcessAudio

\* VideoFinally with the cleanup call lost
VideoFinallyNoCleanup(dir, path, removed) == dir

\* the finally block of process_video (google_processor.py:115-118)
VideoFinally(dir, path, removed) ==
    IF path # <<>> THEN cleanup_temp_files(dir, path, removed) ELSE dir

\* the temp directory when process_media_file returns or raises
AfterProcessor(dir, removed) ==
    IF MediaKind(file_path) = "video"
    THEN VideoFinally(dir, audio_path, removed)
    ELSE dir

\* ffmpeg exits 0: the audio file is written, transcribe_audio reads it and
\* sends it to the model
ExtractOk ==
    /\ pc = "extract"
    /\ LET audio == ExtractedAudioPath(file_path)
       IN  /\ temp_dir' = temp_dir \cup {audio}
           /\ audio_path' = audio
           /\ audio_arg' = audio
           /\ calls' = Append(calls, Call("transcribe", audio))
    /\ pc' = "transcribe"
    /\ UNCHANGED <<api_key, uploaded_file, transcripts, summaries, output_dir,
                   clock, file_path, transcript_data, sum_idx, outcome, pre,
                   unlink_failed, requests, fn_in, fn_out>>

\* ffmpeg cannot be started or exits non-zero, with or without an output
\* file left behind; the exception passes process_video's finally block and
\* reaches the handler's except clause
ExtractFails(created) ==
    /\ pc = "extract"
    /\ LET audio == ExtractedAudioPath(file_path)
           dir   == IF created THEN temp_dir \cup {audio} ELSE temp_dir
       IN  /\ temp_dir' = VideoFinally(dir, audio_path, TRUE)
    /\ pc' = "idle"
    /\ outcome' = "error"
    /\ UNCHANGED <<api_key, uploaded_file, transcripts, summaries, output_dir,
                   clock, file_path, audio_path, audio_arg, transcript_data, sum_idx, calls,
                   pre, unlink_failed, requests, fn_in, fn_out>>

ExtractReturns ==
    \/ ExtractOk
    \/ \E created \in BOOLEAN : ExtractFails(created)

\* the remote call raises (or response.text is None): nothing is returned
TranscribeFails(removed) ==
    /\ pc = "transcribe"
    /\ temp_dir' = AfterProcessor(temp_dir, removed)
    /\ unlink_failed' =
          unlink_failed \cup
          (IF MediaKind(file_path) = "video"
           THEN CleanupErrors(temp_dir, audio_path, removed) ELSE {})
    /\ pc' = "idle"
    /\ outcome' = "error"
    /\ UNCHANGED <<api_key, uploaded_file, transcripts, summaries, output_dir,
                   clock, file_path, audio_path, audio_arg, transcript_data, sum_idx, calls,
                   pre, requests, fn_in, fn_out>>

\* the record process_media_file returns for response.text = text
ProcessorResult(text) ==
    IF MediaKind(file_path) = "video"
    THEN VideoRecord(text, audio_arg, file_path, clock)
    ELSE AudioRecord(text, audio_arg, clock)

\* TranscribeOkSaveFails with the append placed before save_transcript
TranscribeOkAppendedSaveFails(text, removed, created) ==
    /\ pc = "transcribe"
    /\ transcript_data' = <<ProcessorResult(text)>>
    /\ transcripts' = Append(transcripts, ProcessorResult(text))
    /\ LET data == ProcessorResult(text)
       IN  output_dir' =
             IF created
             THEN WriteFile(output_dir, TranscriptFilename(data, clock), <<>>)
             ELSE output_dir
    /\ temp_dir' = AfterProcessor(temp_dir, removed)
    /\ unlink_failed' =
          unlink_failed \cup
          (IF MediaKind(file_path) = "video"
           THEN CleanupErrors(temp_dir, audio_path, removed) ELSE {})
    /\ pc' = "idle"
    /\ outcome' = "error"
    /\ UNCHANGED <<api_key, uploaded_file, summaries, clock, file_path,
                   audio_path, audio_arg, sum_idx, calls, pre, requests,
                   fn_in, fn_out>>

\* the model answers, and save_transcript raises: open() failed (no file),
\* or json.dump failed (a truncated file)
TranscribeOkSaveFails(text, removed, created) ==
    /\ pc = "transcribe"
    /\ transcript_data' = <<ProcessorResult(text)>>
    /\ LET data == ProcessorResult(text)
       IN  output_dir' =
             IF created
             THEN WriteFile(output_dir, TranscriptFilename(data, clock), <<>>)
             ELSE output_dir
    /\ temp_dir' = AfterProcessor(temp_dir, removed)
    /\ unlink_failed' =
          unlink_failed \cup
          (IF MediaKind(file_path) = "video"
           THEN CleanupErrors(temp_dir, audio_path, removed) ELSE {})
    /\ pc' = "idle"
    /\ outcome' = "error"
    /\ UNCHANGED <<api_key, uploaded_file, transcripts, summaries, clock,
                   file_path, audio_path, audio_arg, sum_idx, calls, pre,
                   requests, fn_in, fn_out>>

\* the model answers, the record is saved, appended to the session list,
\* and the staged file is cleaned up (app.py:135-150)
TranscribeOkSaved(text, removed, removed_staged) ==
    /\ pc = "transcribe"
    /\ transcript_data' = <<ProcessorResult(text)>>
    /\ LET data == ProcessorResult(text)
           dir  == AfterProcessor(temp_dir, removed)
       IN  /\ output_dir' =
                 WriteFile(output_dir, TranscriptFilename(data, clock), <<data>>)
           /\ transcripts' = Append(transcripts, data)
           /\ temp_dir' = cleanup_temp_files(dir, file_path, removed_staged)
           /\ unlink_failed' =
                 unlink_failed
                 \cup (IF MediaKind(file_path) = "video"
                       THEN CleanupErrors(temp_dir, audio_path, removed) ELSE {})
                 \cup CleanupErrors(dir, file_path, removed_staged)
    /\ pc' = "idle"
    /\ outcome' = "ok"
    /\ UNCHANGED <<api_key, uploaded_file, summaries, clock, file_path,
                   audio_path, audio_arg, sum_idx, calls, pre, requests, fn_in,
                   fn_out>>

TranscribeReturns ==
    \/ \E removed \in BOOLEAN : TranscribeFails(removed)
    \/ \E text \in ResponseTexts, removed, created \in BOOLEAN :
          TranscribeOkSaveFails(text, removed, created)
    \/ \E text \in ResponseTexts, removed, removed_staged \in BOOLEAN :
          TranscribeOkSaved(text, removed, removed_staged)

\* Generate Summary pressed under transcript idx: the script reruns, the
\* process button is not pressed, and summarize_text sends its request
ClickSummarize(idx) ==
    /\ pc = "idle"
    /\ ~Stopped(uploaded_file)
    /\ idx \in 0..(Len(transcripts) - 1)
    /\ UNCHANGED requests
    /\ BeginRequest
    /\ sum_idx' = idx
    /\ calls' = <<Call("summarize",
                       FullPrompt(transcripts[idx + 1].text, "study_guide"))>>
    /\ pc' = "summarize"
    /\ outcome' = "running"
    /\ file_path' = <<>>
    /\ audio_path' = <<>>
    /\ audio_arg' = <<>>
    /\ transcript_data' = <<>>
    /\ UNCHANGED <<uploaded_file, transcripts, summaries, temp_dir, output_dir>>

\* st.session_state[f'summary_{idx}'] = summary
StoreSummary(table, idx, summary) ==
    [i \in DOMAIN table \cup {idx} |-> IF i = idx THEN summary ELSE table[i]]

SummarizeOk(summary) ==
    /\ pc = "summarize"
    /\ summaries' = StoreSummary(summaries, sum_idx, summary)
    /\ pc' = "idle"
    /\ outcome' = "ok"
    /\ UNCHANGED <<api_key, uploaded_file, transcripts, temp_dir, output_dir,
                   clock, file_path, audio_path, audio_arg, transcript_data, sum_idx, calls,
                   pre, unlink_failed, requests, fn_in, fn_out>>

\* SummarizeFails with the error text stored as the summary
SummarizeFailsStoresError ==
    /\ pc = "summarize"
    /\ summaries' = StoreSummary(summaries, sum_idx, "Summarization error")
    /\ pc' = "idle"
    /\ outcome' = "error"
    /\ UNCHANGED <<api_key, uploaded_file, transcripts, temp_dir, output_dir,
                   clock, file_path, audio_path, audio_arg, transcript_data,
                   sum_idx, calls, pre, unlink_failed, requests, fn_in,
                   fn_out>>

\* summarize_text raises; nothing catches it in app.py and the script ends
SummarizeFails ==
    /\ pc = "summarize"
    /\ pc' = "idle"
    /\ outcome' = "error"
    /\ UNCHANGED <<api_key, uploaded_file, transcripts, summaries, temp_dir,
                   output_dir, clock, file_path, audio_path, audio_arg, transcript_data,
                   sum_idx, calls, pre, unlink_failed, requests, fn_in, fn_out>>

SummarizeReturns ==
    \/ \E summary \in SummaryTexts : SummarizeOk(summary)
    \/ SummarizeFails

Next ==
    \/ Tick
    \/ \E file \in Uploads : Upload(file)
    \/ ClearUpload
    \/ ClickProcess
    \/ ExtractReturns
    \/ TranscribeReturns
    \/ \E idx \in 0..(MaxRequests - 1) : ClickSummarize(idx)
    \/ SummarizeReturns

Spec == Init /\ [][Next]_vars

----------------------------------------------------------------------------
(* The classifier on its own: any filename, not only an uploaded one       *)

NameChars == {".", "m", "p", "4", "3", "M", "P"}

\* every string over S of at most n characters
RECURSIVE StringsUpTo(_, _)
StringsUpTo(S, n) ==
    IF n = 0 THEN {<<>>}
    ELSE LET shorter == StringsUpTo(S, n - 1)
         IN  shorter \cup {Append(w, c) : w \in shorter, c \in S}

\* every configured extension, as written and in upper case, behind the
\* stems "x" and "x.y"; and names with no extension or another one
ConfiguredNames ==
    LET exts  == SUPPORTED_VIDEO_FORMATS \cup SUPPORTED_AUDIO_FORMATS
        stems == {<<"x">>, <<"x", ".", "y">>}
    IN  {st \o e : st \in stems, e \in exts}
        \cup {st \o Upper(e) : st \in stems, e \in exts}
        \cup {e \o <<".", "t", "x", "t">> : e \in exts}
        \cup {<<"x">>, <<"x", ".">>, <<"x", ".", "t", "x", "t">>,
              <<"x", ".", "m", "p">>, <<"x", ".", "m", "p", "4", "4">>,
              <<"x", "m", "p", "4">>}

ClassifierInputs == StringsUpTo(NameChars, MaxNameLen) \cup ConfiguredNames

\* the session untouched, as Init leaves it, with the credential present
FreshSession ==
    /\ api_key = TRUE
    /\ uploaded_file = NoFile
    /\ transcripts = <<>>
    /\ summaries = <<>>
    /\ temp_dir = {}
    /\ output_dir = {}
    /\ clock = 0
    /\ file_path = <<>>
    /\ audio_path = <<>>
    /\ audio_arg = <<>>
    /\ transcript_data = <<>>
    /\ sum_idx = 0
    /\ calls = <<>>
    /\ outcome = "none"
    /\ pre = [transcripts |-> <<>>, summaries |-> <<>>]
    /\ unlink_failed = {}
    /\ requests = 0

InitClassify ==
    /\ FreshSession
    /\ pc = "classify"
    /\ fn_in \in ClassifierInputs
    /\ fn_out = <<>>

\* is_video_file, is_audio_file and process_media_file's dispatch on fn_in
Classify ==
    /\ pc = "classify"
    /\ fn_out' = [video |-> is_video_file(fn_in),
                  audio |-> is_audio_file(fn_in),
                  kind  |-> MediaKind(fn_in)]
    /\ pc' = "classified"
    /\ UNCHANGED <<api_key, uploaded_file, transcripts, summaries, temp_dir,
                   output_dir, clock, file_path, audio_path, audio_arg, transcript_data,
                   sum_idx, calls, outcome, pre, unlink_failed, requests,
                   fn_in>>

NextClassify == Classify

SpecClassify == InitClassify /\ [][NextClassify]_vars

----------------------------------------------------------------------------
(* summarize_text on its own: any text and any style tag                   *)

TextChars == {"a", " "}

SummarizerTexts == StringsUpTo(TextChars, MaxTextLen)

\* the three known tags, and tags the prompts dictionary does not hold
StyleTags == {"brief", "detailed", "study_guide", "bullet", "BRIEF", ""}

InitSummarize ==
    /\ FreshSession
    /\ pc = "summarize_text"
    /\ fn_in \in [text : SummarizerTexts, summary_type : StyleTags]
    /\ fn_out = <<>>

\* summarize_text builds full_prompt and sends it
SummarizeTextCalls ==
    /\ pc = "summarize_text"
    /\ calls' = <<Call("summarize", FullPrompt(fn_in.text, fn_in.summary_type))>>
    /\ pc' = "summarize_text_wait"
    /\ UNCHANGED <<api_key, uploaded_file, transcripts, summaries, temp_dir,
                   output_dir, clock, file_path, audio_path, audio_arg, transcript_data,
                   sum_idx, outcome, pre, unlink_failed, requests, fn_in,
                   fn_out>>

\* return response.text
SummarizeTextReturns(summary) ==
    /\ pc = "summarize_text_wait"
    /\ fn_out' = <<"returned", summary>>
    /\ pc' = "summarize_text_done"
    /\ UNCHANGED <<api_key, uploaded_file, transcripts, summaries, temp_dir,
                   output_dir, clock, file_path, audio_path, audio_arg, transcript_data,
                   sum_idx, calls, outcome, pre, unlink_failed, requests,
                   fn_in>>

\* the remote call raises; summarize_text reports it and raises again
SummarizeTextRaises ==
    /\ pc = "summarize_text_wait"
    /\ fn_out' = <<"raised", "Summarization error">>
    /\ pc' = "summarize_text_done"
    /\ UNCHANGED <<api_key, uploaded_file, transcripts, summaries, temp_dir,
                   output_dir, clock, file_path, audio_path, audio_arg, transcript_data,
                   sum_idx, calls, outcome, pre, unlink_failed, requests,
                   fn_in>>

NextSummarize ==
    \/ SummarizeTextCalls
    \/ \E summary \in SummaryTexts : SummarizeTextReturns(summary)
    \/ SummarizeTextRaises

SpecSummarize == InitSummarize /\ [][NextSummarize]_vars

----------------------------------------------------------------------------
(* Properties                                                              *)

\* name ends in ext, compared without regard to case, after a non-empty stem
EndsWithCI(name, ext) ==
    /\ Len(name) > Len(ext)
    /\ Lower(SubSeq(name, Len(name) - Len(ext) + 1, Len(name))) = ext

NamedVideo(name) == \E e \in SUPPORTED_VIDEO_FORMATS : EndsWithCI(name, e)

NamedAudio(name) == \E e \in SUPPORTED_AUDIO_FORMATS : EndsWithCI(name, e)

\* a Process File request that reached process_media_file
Staged == file_path # <<>>

\* C1: in a request handled by process_media_file, a video is extracted
\* first and transcribed only once extraction has returned its audio path,
\* and the record returned says "video"; an audio file is never extracted,
\* is transcribed as given, and the record returned says "audio".
C1_Orchestration ==
    /\ (Staged /\ NamedVideo(file_path)) =>
          /\ Len(calls) \in {1, 2}
          /\ calls[1] = Call("extract", file_path)
          /\ Len(calls) = 2 =>
                /\ audio_path = ExtractedAudioPath(file_path)
                /\ calls[2] = Call("transcribe", audio_path)
          /\ pc = "extract" => Len(calls) = 1
          /\ transcript_data # <<>> =>
                /\ Len(calls) = 2
                /\ transcript_data[1].media_type = "video"
    /\ (Staged /\ NamedAudio(file_path)) =>
          /\ calls = <<Call("transcribe", file_path)>>
          /\ transcript_data # <<>> => transcript_data[1].media_type = "audio"

\* C1 witness: a video request has returned its record after both calls
C1_Witness ==
    /\ pc = "idle"
    /\ outcome = "ok"
    /\ NamedVideo(file_path)
    /\ Len(calls) = 2
    /\ transcript_data # <<>>

\* the three configuration errors
MissingCredential == ~api_key

Oversized == uploaded_file.present /\ uploaded_file.size > MAX_FILE_SIZE_BYTES

UnsupportedUpload ==
    /\ Staged
    /\ ~NamedVideo(uploaded_file.name)
    /\ ~NamedAudio(uploaded_file.name)

\* C2: with the credential missing, the file over the size limit, or a
\* staged file whose extension is in neither set, the request is over and
\* has started no extraction and sent no transcription or summarization.
C2_ConfigErrorBeforeCalls ==
    (MissingCredential \/ Oversized \/ UnsupportedUpload) =>
        /\ calls = <<>>
        /\ pc = "idle"
        /\ outcome \in {"none", "stopped", "error"}

\* C2 witness: an unsupported file was staged and the request has ended
C2_Witness ==
    /\ UnsupportedUpload
    /\ outcome = "error"
    /\ requests = 1

\* the request extracted, and ffmpeg failed: no transcription followed
ExtractionFailed ==
    /\ pc = "idle"
    /\ Staged
    /\ calls = <<Call("extract", file_path)>>

\* C3: after a request whose extraction failed, no file is left at
\* <video-stem>_audio.mp3 in the temp directory, also when ffmpeg had
\* already written one.
C3_FailedExtractionCleaned ==
    ExtractionFailed => ExtractedAudioPath(file_path) \notin temp_dir

\* extraction returned and the transcription call was made
ExtractedAndTranscribing ==
    /\ Staged
    /\ NamedVideo(file_path)
    /\ Len(calls) = 2

\* C4: once extraction has succeeded, the extracted audio file is gone when
\* the request ends, whether transcription succeeded or failed, unless
\* os.remove itself failed on it.
C4_ExtractedAudioRemoved ==
    (pc = "idle" /\ ExtractedAndTranscribing
       /\ ExtractedAudioPath(file_path) \notin unlink_failed)
    => ExtractedAudioPath(file_path) \notin temp_dir

\* C4 witness: extraction succeeded, transcription failed, the file is gone
C4_Witness ==
    /\ pc = "idle"
    /\ ExtractedAndTranscribing
    /\ outcome = "error"
    /\ transcript_data = <<>>
    /\ unlink_failed = {}
    /\ ExtractedAudioPath(file_path) \notin temp_dir

\* C5: a request that ended in an error (extraction, transcription,
\* persistence or summarization failed) leaves the transcript list and
\* every stored summary as they were when the request began.
C5_FailureLeavesSession ==
    (pc = "idle" /\ outcome = "error") =>
        /\ transcripts = pre.transcripts
        /\ summaries = pre.summaries

\* C5 witness: a summarization failed for an index that had a summary
C5_Witness ==
    /\ pc = "idle"
    /\ outcome = "error"
    /\ Len(calls) = 1
    /\ calls[1].op = "summarize"
    /\ sum_idx \in DOMAIN summaries

\* C6: the record of a successfully processed upload names the uploaded
\* file in original_file.
C6_OriginalFileIsUploadName ==
    (pc = "idle" /\ Staged /\ outcome = "ok") =>
        transcripts[Len(transcripts)].original_file = uploaded_file.name

\* C7: when a request that staged a file has ended, in success or in any
\* failure, the staged file is gone unless os.remove itself failed on it.
C7_StagedFileRemoved ==
    (pc = "idle" /\ Staged /\ file_path \notin unlink_failed)
    => file_path \notin temp_dir

\* C8: after classification, a name ending (in any case) in a video
\* extension is video, one ending in an audio extension is audio, every
\* other name is unsupported; no name is both, and the two configured sets
\* share no extension.
C8_ClassificationTotalExclusive ==
    /\ SUPPORTED_VIDEO_FORMATS \cap SUPPORTED_AUDIO_FORMATS = {}
    /\ pc = "classified" =>
          /\ fn_out.kind \in {"video", "audio", "unsupported"}
          /\ ~(fn_out.video /\ fn_out.audio)
          /\ NamedVideo(fn_in) => (fn_out.kind = "video" /\ fn_out.video)
          /\ NamedAudio(fn_in) => (fn_out.kind = "audio" /\ fn_out.audio)
          /\ (~NamedVideo(fn_in) /\ ~NamedAudio(fn_in)) =>
                (fn_out.kind = "unsupported" /\ ~fn_out.video /\ ~fn_out.audio)

\* C8 witness: an upper-case video extension has been classified
C8_Witness ==
    /\ pc = "classified"
    /\ fn_in = <<"x", ".", "M", "P", "4">>
    /\ fn_out.kind = "video"

\* the number of whitespace-separated tokens: the positions where a token
\* starts
TokenCount(text) ==
    Cardinality({i \in 1..Len(text) :
                    /\ text[i] \notin Whitespace
                    /\ (i = 1 \/ text[i - 1] \in Whitespace)})

\* the current request is a summarization
Summarizing == Len(calls) > 0 /\ calls[1].op = "summarize"

\* C9: every record of the session list has word_count equal to the number
\* of whitespace-separated tokens of its text, and a summarization request
\* leaves the list as it was and changes no summary but the one keyed by
\* the record's position.
C9_WordCountAndSummaryFrame ==
    /\ \A i \in 1..Len(transcripts) :
          transcripts[i].word_count = TokenCount(transcripts[i].text)
    /\ Summarizing =>
          /\ transcripts = pre.transcripts
          /\ DOMAIN summaries \subseteq (DOMAIN pre.summaries \cup {sum_idx})
          /\ \A k \in DOMAIN pre.summaries :
                k = sum_idx \/ (k \in DOMAIN summaries /\ summaries[k] = pre.summaries[k])

\* C9 witness: a summary was stored for a record of two words whose text
\* has leading, repeated and trailing whitespace
C9_Witness ==
    /\ pc = "idle"
    /\ Summarizing
    /\ outcome = "ok"
    /\ transcripts[sum_idx + 1].word_count = 2
    /\ Len(transcripts[sum_idx + 1].text) = 6
    /\ sum_idx \in DOMAIN summaries

\* C10: whatever the style tag, summarize_text sends one request: the
\* tag's own template for brief, detailed and study_guide, the brief
\* template for any other tag, followed by the text; the three templates
\* differ.
C10_UnknownStyleFallsBack ==
    /\ Prompts["brief"] # Prompts["detailed"]
    /\ Prompts["brief"] # Prompts["study_guide"]
    /\ Prompts["detailed"] # Prompts["study_guide"]
    /\ pc \in {"summarize_text_wait", "summarize_text_done"} =>
          LET tag      == fn_in.summary_type
              template == IF tag \in {"brief", "detailed", "study_guide"}
                          THEN Prompts[tag] ELSE Prompts["brief"]
          IN  calls = <<Call("summarize",
                             <<template, "\n\nText to summarize:\n">> \o fn_in.text)>>

\* C10 witness: summarize_text returned a summary for an unknown tag
C10_Witness ==
    /\ pc = "summarize_text_done"
    /\ fn_in.summary_type = "bullet"
    /\ fn_in.text # <<>>
    /\ fn_out[1] = "returned"

\* one step of the session, as C11 allows it
C11_Step ==
    \* the list keeps every record where it was and grows by at most one
    /\ Len(transcripts') \in {Len(transcripts), Len(transcripts) + 1}
    /\ SubSeq(transcripts', 1, Len(transcripts)) = transcripts
    \* over a whole request too
    /\ Len(transcripts') \in {Len(pre'.transcripts), Len(pre'.transcripts) + 1}
    /\ SubSeq(transcripts', 1, Len(pre'.transcripts)) = pre'.transcripts
    \* an append ends a request whose transcription returned this record
    \* and whose save wrote it
    /\ Len(transcripts') = Len(transcripts) + 1 =>
          LET record == transcripts'[Len(transcripts')]
          IN  /\ pc = "transcribe"
              /\ pc' = "idle"
              /\ outcome' = "ok"
              /\ calls[Len(calls)] = Call("transcribe", record.source_file)
              /\ transcript_data' = <<record>>
              /\ \E f \in output_dir' : f.data = <<record>>
    \* a summary is stored under the position of the record whose text was
    \* sent, and under a position of the list only
    /\ \A k \in DOMAIN summaries' : k \in 0..(Len(transcripts') - 1)
    /\ summaries' # summaries =>
          /\ transcripts' = transcripts
          /\ sum_idx \in DOMAIN summaries'
          /\ calls = <<Call("summarize",
                            <<Prompts["study_guide"], "\n\nText to summarize:\n">>
                               \o transcripts'[sum_idx + 1].text)>>
          /\ \A k \in DOMAIN summaries' \ {sum_idx} :
                k \in DOMAIN summaries /\ summaries'[k] = summaries[k]

====
